---------------------------- MODULE Spec2Model ----------------------------
(***************************************************************************)
(* napp: a project scaffolding command line tool.                          *)
(*                                                                         *)
(* The repository holds three builds of the tool, modelled as `variant':   *)
(*   "napp"    src/napp.go            validateArgs + hard-coded bodies     *)
(*   "embed"   src/unnamed/part_000   urfave/cli Action + embedded source/ *)
(*   "inline"  src/unnamed/part_001   urfave/cli Action + inline bodies    *)
(*                                                                         *)
(* A string is a sequence of pieces.  A piece is one character of a        *)
(* run-time value (the project name and what is derived from it) or one    *)
(* literal of the program text, kept whole ("_DB_PATH", ".db", a block of  *)
(* template text).  Concatenation is \o.  "\n" is the line terminator.     *)
(***************************************************************************)
EXTENDS Integers, Sequences, FiniteSets, TLC

(***************************************************************************)
(* Bounds                                                                  *)
(***************************************************************************)
MaxLen == 2      \* longest enumerated argument, in characters
MaxRuns == 2     \* invocations of the tool with the same command line
MaxFaults == 1   \* I/O failures the environment injects (permissions, disk)

VARIABLES
  variant,   \* which build of the tool runs
  args,      \* the argument list handed to validateArgs / the init Action
  fs,        \* the file system below the working directory: path -> entry
  pc,        \* per invocation: the next function of the run
  sub,       \* per invocation: index into subfolders in createProject's loop
  fs0,       \* per invocation: the file system when the invocation started
  result,    \* per invocation: what createProject returned
  exitCode,  \* per invocation: the exit status (-1 while running)
  out,       \* per invocation: the lines printed
  open,      \* per invocation: paths whose file handle is still open
  ioFailed,  \* per invocation: some os.Mkdir/os.Create/WriteString failed
  faults     \* failures injected so far

vars == <<variant, args, fs, pc, sub, fs0, result, exitCode, out, open,
          ioFailed, faults>>

Procs == 1..MaxRuns

Variants == {"napp", "embed", "inline"}

\* the builds whose main() calls validateArgs; the others validate in the
\* init command's Action
HasValidateArgs(v) == v = "napp"

(***************************************************************************)
(* Characters and the string functions of the standard library             *)
(***************************************************************************)
LowerSeq == <<"a","b","c","d","e","f","g","h","i","j","k","l","m",
              "n","o","p","q","r","s","t","u","v","w","x","y","z">>
UpperSeq == <<"A","B","C","D","E","F","G","H","I","J","K","L","M",
              "N","O","P","Q","R","S","T","U","V","W","X","Y","Z">>
LowerLetters == {LowerSeq[i] : i \in DOMAIN LowerSeq}
UpperLetters == {UpperSeq[i] : i \in DOMAIN UpperSeq}
Digits == {"0","1","2","3","4","5","6","7","8","9"}

IndexOf(seq, c) == CHOOSE i \in DOMAIN seq : seq[i] = c

ToUpperChar(c) == IF c \in LowerLetters THEN UpperSeq[IndexOf(LowerSeq, c)] ELSE c
ToLowerChar(c) == IF c \in UpperLetters THEN LowerSeq[IndexOf(UpperSeq, c)] ELSE c

\* strings.ToUpper, strings.ToLower
ToUpper(s) == [i \in DOMAIN s |-> ToUpperChar(s[i])]
ToLower(s) == [i \in DOMAIN s |-> ToLowerChar(s[i])]

\* strings.ReplaceAll(s, old, new) for the one-character old and new the
\* program passes ("-" to "_", "-" to " ")
ReplaceAll(s, old, new) == [i \in DOMAIN s |-> IF s[i] = old THEN new ELSE s[i]]

\* faulty variant: the pattern written with * for +, which lets the empty name pass
MatchStringStar(s) ==
  \A i \in DOMAIN s : s[i] \in LowerLetters \cup Digits \cup {"-"}

\* regexp.MatchString("^[a-z0-9-]+$", s): Go's $ without the m flag matches
\* only at the end of the text
MatchString(s) ==
  /\ Len(s) >= 1
  /\ \A i \in DOMAIN s : s[i] \in LowerLetters \cup Digits \cup {"-"}

\* cases.Title(language.English).String(s): the first cased letter of each
\* word is upper-cased, later cased letters are lower-cased; a space breaks
\* the word, digits and other pieces are copied and break nothing
IsCased(c) == c \in LowerLetters \cup UpperLetters
MidWord(s, i) ==
  \E j \in 1..(i - 1) : IsCased(s[j]) /\ \A k \in j..(i - 1) : s[k] # " "
Title(s) ==
  [i \in DOMAIN s |->
     IF ~IsCased(s[i]) THEN s[i]
     ELSE IF MidWord(s, i) THEN ToLowerChar(s[i]) ELSE ToUpperChar(s[i])]

\* the strings of a list, one after the other
RECURSIVE Concat(_)
Concat(ss) == IF ss = <<>> THEN <<>> ELSE Head(ss) \o Concat(Tail(ss))

\* fmt.Sprintf(format, a...) with %s verbs only: verbs are filled left to
\* right; a verb without operand prints %!s(MISSING), operands without verb
\* are reported in a trailing %!(EXTRA ...)
RECURSIVE SprintfFrom(_, _, _)
SprintfFrom(format, a, k) ==
  IF format = <<>> THEN
    IF k <= Len(a) THEN <<"%!(EXTRA ">> \o Concat(SubSeq(a, k, Len(a))) \o <<")">> ELSE <<>>
  ELSE IF Head(format) = "%s" THEN
    (IF k <= Len(a) THEN a[k] ELSE <<"%!s(MISSING)">>)
      \o SprintfFrom(Tail(format), a, k + 1)
  ELSE <<Head(format)>> \o SprintfFrom(Tail(format), a, k)
Sprintf(format, a) == SprintfFrom(format, a, 1)

\* %v of a small int
Itoa(n) == <<"0","1","2","3","4","5","6","7","8","9">>[n + 1]

(***************************************************************************)
(* The argument validator                                                  *)
(***************************************************************************)
ErrNoArguments == <<"no arguments provided">>
ErrTooManyArguments == <<"too many arguments provided">>
ErrInvalidName == <<"invalid project name">>
HelpFlag == <<"-","-","h","e","l","p">>
UsageText == <<"You can create a new Nano App with the command 'napp <project-name>'">>
OopsName == <<"Oops! Project name must be in the following format: <project-name>">>
OopsCount(n) == <<"Oops! Received ">> \o <<Itoa(n)>> \o <<" arguments, wanted 1">>

\* faulty variant: every name but the empty one accepted
isInvalidProjectNameLax(name) == name = <<>>

isInvalidProjectName(name) == ~MatchString(name)

\* faulty variant: the two argument-count errors exchanged
validateArgsSwapped(a) ==
  IF Len(a) = 0 THEN [kind |-> "err", msg |-> ErrTooManyArguments]
  ELSE IF Len(a) > 1 THEN [kind |-> "err", msg |-> ErrNoArguments]
  ELSE IF a[1] = HelpFlag THEN [kind |-> "exit0", msg |-> UsageText]
  ELSE IF ~MatchString(a[1]) THEN [kind |-> "err", msg |-> ErrInvalidName]
  ELSE [kind |-> "nil", msg |-> <<>>]

\* faulty variant: the --help branch left out
validateArgsNoHelp(a) ==
  IF Len(a) = 0 THEN [kind |-> "err", msg |-> ErrNoArguments]
  ELSE IF Len(a) > 1 THEN [kind |-> "err", msg |-> ErrTooManyArguments]
  ELSE IF ~MatchString(a[1]) THEN [kind |-> "err", msg |-> ErrInvalidName]
  ELSE [kind |-> "nil", msg |-> <<>>]

\* faulty variant: the name of the first argument checked before the count
validateArgsNameFirst(a) ==
  IF Len(a) = 0 THEN [kind |-> "err", msg |-> ErrNoArguments]
  ELSE IF ~MatchString(a[1]) THEN [kind |-> "err", msg |-> ErrInvalidName]
  ELSE IF Len(a) > 1 THEN [kind |-> "err", msg |-> ErrTooManyArguments]
  ELSE IF a[1] = HelpFlag THEN [kind |-> "exit0", msg |-> UsageText]
  ELSE [kind |-> "nil", msg |-> <<>>]

\* faulty variant: --help looked for before the argument count is checked
validateArgsHelpFirst(a) ==
  IF Len(a) = 0 THEN [kind |-> "err", msg |-> ErrNoArguments]
  ELSE IF a[1] = HelpFlag THEN [kind |-> "exit0", msg |-> UsageText]
  ELSE IF Len(a) > 1 THEN [kind |-> "err", msg |-> ErrTooManyArguments]
  ELSE IF ~MatchString(a[1]) THEN [kind |-> "err", msg |-> ErrInvalidName]
  ELSE [kind |-> "nil", msg |-> <<>>]

\* validateArgs: kind "err" is a returned error, "exit0" is the os.Exit(0)
\* inside the function, "nil" the nil return
validateArgs(a) ==
  IF Len(a) = 0 THEN [kind |-> "err", msg |-> ErrNoArguments]
  ELSE IF Len(a) > 1 THEN [kind |-> "err", msg |-> ErrTooManyArguments]
  ELSE IF a[1] = HelpFlag THEN [kind |-> "exit0", msg |-> UsageText]
  ELSE IF isInvalidProjectName(a[1]) THEN [kind |-> "err", msg |-> ErrInvalidName]
  ELSE [kind |-> "nil", msg |-> <<>>]

\* the checks at the head of the init command's Action: cli.NewExitError(msg, 1)
\* is kind "err"
actionArgs(a) ==
  IF Len(a) # 1 THEN [kind |-> "err", msg |-> OopsCount(Len(a))]
  ELSE IF isInvalidProjectName(a[1]) THEN [kind |-> "err", msg |-> OopsName]
  ELSE [kind |-> "nil", msg |-> <<>>]

(***************************************************************************)
(* Names of directories and files, and the derived forms of the name       *)
(***************************************************************************)
CmdDir == <<"cmd">>
StaticDir == <<"static">>
subfoldersNapp == <<CmdDir, <<"templates">>, StaticDir>>
subfoldersCli == <<CmdDir, <<"template">>, StaticDir>>
\* faulty variant: the list in the opposite order
subfoldersStaticFirst(v) ==
  <<StaticDir, (IF v = "napp" THEN subfoldersNapp ELSE subfoldersCli)[2], CmdDir>>

\* faulty variant: static left out of the list
subfoldersNoStatic(v) == SubSeq(IF v = "napp" THEN subfoldersNapp ELSE subfoldersCli, 1, 2)

subfolders(v) == IF v = "napp" THEN subfoldersNapp ELSE subfoldersCli
TemplateDir(v) == subfolders(v)[2]

\* faulty variant: the hyphens left in the variable name
envVarNameHyphens(projectName) == ToUpper(projectName)

\* faulty variant: the hyphens replaced, the letters left as they are
envVarNameNoUpper(projectName) == ReplaceAll(projectName, "-", "_")

\* faulty variant: the title taken of the name itself, hyphens included
titleKeepsHyphens(projectName) == Title(projectName)

\* strings.ReplaceAll(strings.ToUpper(projectName), "-", "_")
envVarName(projectName) == ReplaceAll(ToUpper(projectName), "-", "_")
\* strings.ToLower(projectName) + ".db"
dbFilename(projectName) == ToLower(projectName) \o <<".db">>
\* cases.Title(language.English).String(strings.ReplaceAll(projectName, "-", " "))
title(projectName) == Title(ReplaceAll(projectName, "-", " "))

\* filepath.Join(projectName, elem...) and fmt.Sprintf("%s/%s", ...): a path
\* is the sequence of its components
Join(projectName, elems) == <<projectName>> \o elems

(***************************************************************************)
(* The bodies the file-creation functions write                            *)
(***************************************************************************)
\* cmd/main.go
mainGoContentNapp ==
  <<"package main [...] db = sqlx.MustConnect(\"sqlite3\", os.Getenv(\"",
    "AUTH_DIARIES_DB_PATH",
    "\")) [...] func newPageData(message string) PageData {...}\n">>
mainGoTemplate ==
  <<"package main [...] store := sessions.NewCookieStore([]byte(os.Getenv(\"",
    "%s",
    "\")))\n\te.Use(session.Middleware(store))\n\n\tdb, err := gorm.Open(sqlite.Open(os.Getenv(\"",
    "%s",
    "\")), &gorm.Config{}) [...] func dashboardHandler() echo.HandlerFunc {...}\n">>
\* faulty variant: the two operands of Sprintf exchanged
mainGoContentCliSwapped(projectName) ==
  LET sessEnv == ReplaceAll(ToUpper(projectName), "-", "_") \o <<"_COOKIE_STORE_SECRET">>
      dbEnv == ReplaceAll(ToUpper(projectName), "-", "_") \o <<"_DB_PATH">>
  IN Sprintf(mainGoTemplate, <<dbEnv, sessEnv>>)

mainGoContentCli(projectName) ==
  LET sessEnv == envVarName(projectName) \o <<"_COOKIE_STORE_SECRET">>
      dbEnv == envVarName(projectName) \o <<"_DB_PATH">>
  IN Sprintf(mainGoTemplate, <<sessEnv, dbEnv>>)
mainGoContent(v, projectName) ==
  IF v = "napp" THEN mainGoContentNapp ELSE mainGoContentCli(projectName)

\* templates/index.html, template/index.html
indexHTMLContentNapp ==
  <<"{{ block \"index\" . }} [...] <h1>Hello from Napp!</h1> [...] {{ end }}\n">>
indexHTMLTemplate ==
  <<"{{ block \"index\" . }} [...] <a href=\"/\" title=\"Napp Home\">\n", "%s",
    "\n</a> [...] <h1>", "%s", "</h1> [...] <h2>\n", "%s",
    "\n</h2> [...] <p>\n", "%s", "\n[...] {{ end }}\n">>
\* faulty variant: one operand fewer than the template has verbs
indexHTMLContentCliThree(projectName) ==
  Sprintf(indexHTMLTemplate,
          <<Title(ReplaceAll(projectName, "-", " ")), Title(ReplaceAll(projectName, "-", " ")),
            Title(ReplaceAll(projectName, "-", " "))>>)

indexHTMLContentCli(projectName) ==
  Sprintf(indexHTMLTemplate,
          <<title(projectName), title(projectName), title(projectName), title(projectName)>>)
indexHTMLContent(v, projectName) ==
  IF v = "napp" THEN indexHTMLContentNapp ELSE indexHTMLContentCli(projectName)

\* template/dashboard.html
dashboardHTMLTemplate ==
  <<"{{ block \"dashboard\" . }} [...] <a href=\"/\">\n", "%s", "\n</a> [...] {{ end }}\n">>
dashboardHTMLContent(projectName) ==
  Sprintf(dashboardHTMLTemplate, <<title(projectName)>>)

\* static/htmx.min.js, static/twcolors.min.css, static/styles.css
htmxContentNapp == <<"console.log('Hello, World!');">>
htmxContentCli == <<"(function (e, t) { [...htmx.min.js...] })">>
htmxContent(v) == IF v = "napp" THEN htmxContentNapp ELSE htmxContentCli
twColorsContent == <<":root{--tw-slate-50:#f8fafc; [...twcolors.min.css...] }">>
cssContentNapp == <<"* { margin: 0; [...] } div { [...] align-items: center; }\n">>
cssContentCli == <<"* { padding: 0; margin: 0; [...styles.css...] }\n">>
\* faulty variant: the stylesheet headed by a comment with the project name
cssContentNamed(v) ==
  <<"/* ">> \o args[1] \o <<" */">> \o (IF v = "napp" THEN cssContentNapp ELSE cssContentCli)

cssContent(v) == IF v = "napp" THEN cssContentNapp ELSE cssContentCli

\* .gitignore
ignoreContentNapp ==
  <<"# Created by https://www.toptal.com/developers/gitignore/api/go,linux,windows,macos [...]",
    "\n", ".env", "\n",
    "### Go ### [...] # End of https://www.toptal.com/developers/gitignore/api/go,linux,windows,macos",
    "\n", "bin", "\n", "auth-diaries.db", "\n">>
ignoreTemplateInline ==
  <<"# Created by https://www.toptal.com/developers/gitignore/api/go,linux,windows,macos [...]",
    "\n", ".env", "\n", "bin", "\n", "%s", "\n",
    "### Go ### [...] # End of https://www.toptal.com/developers/gitignore/api/go,linux,windows,macos",
    "\n">>
ignoreContentInline(projectName) ==
  Sprintf(ignoreTemplateInline, <<dbFilename(projectName)>>)
\* source/.gitignore is embedded by the build and has two verbs
ignoreTemplateEmbed ==
  <<"# Created by https://www.toptal.com/developers/gitignore/api/go,linux,windows,macos [...]",
    "\n", "%s", "\n", "bin", "\n", "%s", "\n",
    "### Go ### [...] # End of https://www.toptal.com/developers/gitignore/api/go,linux,windows,macos",
    "\n">>
ignoreContentEmbed(projectName) ==
  LET envFilename == <<".env">>
  IN Sprintf(ignoreTemplateEmbed, <<envFilename, dbFilename(projectName)>>)
ignoreContent(v, projectName) ==
  CASE v = "napp" -> ignoreContentNapp
    [] v = "embed" -> ignoreContentEmbed(projectName)
    [] v = "inline" -> ignoreContentInline(projectName)

\* .env
dotenvContentNapp(projectName) ==
  Sprintf(<<"%s", "_DB_PATH", "=\"", "%s", "\"">>,
          <<envVarName(projectName), dbFilename(projectName)>>)
dotenvTemplateInline ==
  <<"%s", "_DB_PATH", "=\"", "%s", "\"", "\n",
    "\t", "%s", "_COOKIE_STORE_SECRET", "=\"", "%s", "\"", "\n", "\t">>
\* source/.env is embedded by the build and has four verbs
dotenvTemplateEmbed ==
  <<"%s", "_DB_PATH", "=\"", "%s", "\"", "\n",
    "%s", "_COOKIE_STORE_SECRET", "=\"", "%s", "\"", "\n">>
\* faulty variant: the project name used as the cookie-store secret
dotenvContentCliNameSecret(v, projectName) ==
  Sprintf(IF v = "embed" THEN dotenvTemplateEmbed ELSE dotenvTemplateInline,
          <<ReplaceAll(ToUpper(projectName), "-", "_"), ToLower(projectName) \o <<".db">>,
            ReplaceAll(ToUpper(projectName), "-", "_"), projectName>>)

dotenvContentCli(v, projectName) ==
  LET dbEnv == envVarName(projectName)
      sessEnv == envVarName(projectName)
      sessSecret == <<"secret">>
  IN Sprintf(IF v = "embed" THEN dotenvTemplateEmbed ELSE dotenvTemplateInline,
             <<dbEnv, dbFilename(projectName), sessEnv, sessSecret>>)
dotenvContent(v, projectName) ==
  IF v = "napp" THEN dotenvContentNapp(projectName) ELSE dotenvContentCli(v, projectName)

\* Makefile
makefileContent(projectName) ==
  Sprintf(<<"BINARY_NAME=", "%s", "\n",
            "all: clean format build run [...] test:\n\t@echo \"Testing...\"\n\t@go test ./...\n">>,
          <<projectName>>)

\* Dockerfile
dockerfileContentEmbed ==
  <<"# Build stage\nFROM golang:1.24-alpine AS builder [...] CMD [\"./main\"]\n">>
\* faulty variant: the run command left with a fixed binary name
dockerfileContentInlineTwo(projectName) ==
  Sprintf(<<"# Use the official Ubuntu image as the base image [...] COPY bin/", "%s",
            " /app/", "%s", "\n",
            "# Copy all static files into the container [...] CMD [\"./", "main", "\"]", "\n">>,
          <<projectName, projectName>>)

dockerfileContentInline(projectName) ==
  Sprintf(<<"# Use the official Ubuntu image as the base image [...] COPY bin/", "%s",
            " /app/", "%s", "\n",
            "# Copy all static files into the container [...] CMD [\"./", "%s", "\"]", "\n">>,
          <<projectName, projectName, projectName>>)
dockerfileContent(v, projectName) ==
  IF v = "embed" THEN dockerfileContentEmbed ELSE dockerfileContentInline(projectName)

(***************************************************************************)
(* The file system                                                         *)
(***************************************************************************)
Dir == [kind |-> "dir", content |-> <<>>]
File(content) == [kind |-> "file", content |-> content]
EmptyFs == [path \in {} |-> Dir]

Exists(f, path) == path \in DOMAIN f
IsDir(f, path) == path = <<>> \/ (Exists(f, path) /\ f[path].kind = "dir")
Parent(path) == SubSeq(path, 1, Len(path) - 1)

\* faulty variant: os.MkdirAll for os.Mkdir, which accepts a directory that exists
MkdirAllErr(f, path) ==
  IF path \in DOMAIN f /\ f[path].kind # "dir" THEN "not a directory"
  ELSE ""

\* os.Mkdir(path, 0755): the error it returns in file system f, "" for none
MkdirErr(f, path) ==
  IF Exists(f, path) THEN "file exists"
  ELSE IF ~IsDir(f, Parent(path)) THEN "no such file or directory"
  ELSE ""

\* os.Create(path): opens with O_RDWR|O_CREATE|O_TRUNC
CreateErr(f, path) ==
  IF ~IsDir(f, Parent(path)) THEN "no such file or directory"
  ELSE IF Exists(f, path) /\ f[path].kind = "dir" THEN "is a directory"
  ELSE ""

Put(f, path, entry) == (path :> entry) @@ f

(***************************************************************************)
(* Inputs                                                                  *)
(***************************************************************************)
\* arguments: every string over Alphabet up to MaxLen characters, each of
\* them followed by one of OtherChars, a name whose first letter follows a
\* digit, and --help
Alphabet == {"a", "-"}
OtherChars == {"1", "A", "_", " ", ".", "/", "\\"}

RECURSIVE StringsOfLen(_)
StringsOfLen(n) ==
  IF n = 0 THEN {<<>>}
  ELSE {Append(s, c) : s \in StringsOfLen(n - 1), c \in Alphabet}

DigitLed == <<"1", "a">>
Names ==
  LET short == UNION {StringsOfLen(n) : n \in 0..(MaxLen - 1)}
  IN short \cup StringsOfLen(MaxLen)
           \cup {Append(s, c) : s \in short, c \in OtherChars}
           \cup {DigitLed, HelpFlag}
ShortArgs == {HelpFlag, <<"a">>, <<>>}
ArgLists ==
  {<<>>} \cup {<<s>> : s \in Names}
         \cup {<<s, t>> : s \in ShortArgs, t \in ShortArgs}
         \cup {<<<<"a">>, <<"a">>, <<"a">>>>}

(***************************************************************************)
(* The run                                                                 *)
(***************************************************************************)
NoErr == <<>>

\* faulty variant: .env written before .gitignore
createStepsNappEnvFirst ==
  <<"createGoMainFile", "createHtmlFile", "createHtmxFile", "createCssFile",
    "createDotEnvFile", "createIgnoreFile", "createSqliteDbFile">>

createStepsNapp ==
  <<"createGoMainFile", "createHtmlFile", "createHtmxFile", "createCssFile",
    "createIgnoreFile", "createDotEnvFile", "createSqliteDbFile">>
createStepsEmbed ==
  <<"createGoMainFile", "createHtmlFile", "createDashboardHtmlFile",
    "createHtmxFile", "createTwColorsFile", "createCssFile", "createIgnoreFile",
    "createDotEnvFile", "createSqliteDbFile", "createDockerfile">>
\* faulty variant: the call of createMakefile forgotten
createStepsInlineNoMakefile ==
  <<"createGoMainFile", "createHtmlFile", "createDashboardHtmlFile",
    "createHtmxFile", "createTwColorsFile", "createCssFile", "createIgnoreFile",
    "createDotEnvFile", "createSqliteDbFile", "createDockerfile">>

createStepsInline ==
  <<"createGoMainFile", "createHtmlFile", "createDashboardHtmlFile",
    "createHtmxFile", "createTwColorsFile", "createCssFile", "createIgnoreFile",
    "createDotEnvFile", "createSqliteDbFile", "createMakefile", "createDockerfile">>
createSteps(v) ==
  CASE v = "napp" -> createStepsNapp
    [] v = "embed" -> createStepsEmbed
    [] v = "inline" -> createStepsInline

\* the statement after the call of step: the next call, or the return
AfterStep(v, step) ==
  LET i == IndexOf(createSteps(v), step)
  IN IF i < Len(createSteps(v)) THEN createSteps(v)[i + 1] ELSE "exit"

Init ==
  /\ variant \in Variants
  /\ args \in ArgLists
  /\ fs = EmptyFs
  /\ pc = [p \in Procs |-> "main"]
  /\ sub = [p \in Procs |-> 1]
  /\ fs0 = [p \in Procs |-> EmptyFs]
  /\ result = [p \in Procs |-> [ok |-> FALSE, err |-> NoErr]]
  /\ exitCode = [p \in Procs |-> -1]
  /\ out = [p \in Procs |-> <<>>]
  /\ open = [p \in Procs |-> {}]
  /\ ioFailed = [p \in Procs |-> FALSE]
  /\ faults = 0

Println(p, lines) == out' = [out EXCEPT ![p] = @ \o lines]
Exit(p, code) ==
  /\ exitCode' = [exitCode EXCEPT ![p] = code]
  /\ pc' = [pc EXCEPT ![p] = "done"]

\* main up to the call of createProject (napp), the init Action up to the
\* call of createProject (embed, inline)
Start(p) ==
  /\ pc[p] = "main"
  /\ fs0' = [fs0 EXCEPT ![p] = fs]
  /\ LET r == IF HasValidateArgs(variant) THEN validateArgs(args) ELSE actionArgs(args)
     IN CASE r.kind = "err" -> Println(p, <<r.msg>>) /\ Exit(p, 1)
          [] r.kind = "exit0" -> Println(p, <<r.msg>>) /\ Exit(p, 0)
          [] r.kind = "nil" ->
               /\ pc' = [pc EXCEPT ![p] = "createProject"]
               /\ UNCHANGED <<out, exitCode>>
  /\ UNCHANGED <<variant, args, fs, sub, result, open, ioFailed, faults>>

\* The command line run again: invocation p starts when the invocations
\* before it have exited.
Main(p) ==
  /\ \A q \in Procs : q < p => pc[q] = "done"
  /\ Start(p)

\* faulty variant: the failed createProject removes the project directory
MkdirFailedCleansUp(p, prefix, e) ==
  /\ result' = [result EXCEPT ![p] = [ok |-> FALSE, err |-> prefix \o <<e>>]]
  /\ ioFailed' = [ioFailed EXCEPT ![p] = TRUE]
  /\ pc' = [pc EXCEPT ![p] = "exit"]
  /\ fs' = [path \in {q \in DOMAIN fs : q[1] # args[1]} |-> fs[path]]
  /\ UNCHANGED sub

\* a failed os.Mkdir in createProject: return false and the wrapped error
MkdirFailed(p, prefix, e) ==
  /\ result' = [result EXCEPT ![p] = [ok |-> FALSE, err |-> prefix \o <<e>>]]
  /\ ioFailed' = [ioFailed EXCEPT ![p] = TRUE]
  /\ pc' = [pc EXCEPT ![p] = "exit"]
  /\ UNCHANGED <<fs, sub>>

\* os.Mkdir(path) in createProject: it fails as the file system says, or
\* for a reason of the environment
Mkdir(p, path, prefix, onSuccess) ==
  LET e == MkdirErr(fs, path)
  IN \/ /\ e = ""
        /\ fs' = Put(fs, path, Dir)
        /\ onSuccess
        /\ UNCHANGED <<result, ioFailed, faults>>
     \/ /\ e # ""
        /\ MkdirFailed(p, prefix, e)
        /\ UNCHANGED faults
     \/ /\ e = ""
        /\ faults < MaxFaults
        /\ faults' = faults + 1
        /\ MkdirFailed(p, prefix, "permission denied")

\* createProject: os.Mkdir(projectName, 0755)
createProjectRoot(p) ==
  /\ pc[p] = "createProject"
  /\ Mkdir(p, <<args[1]>>, <<"error creating project directory: ">>,
           /\ pc' = [pc EXCEPT ![p] = "subfolders"]
           /\ sub' = [sub EXCEPT ![p] = 1])
  /\ UNCHANGED <<variant, args, fs0, exitCode, out, open>>

\* createProject: one iteration of the loop over subfolders
createProjectSubfolder(p) ==
  /\ pc[p] = "subfolders"
  /\ LET folder == subfolders(variant)[sub[p]]
     IN Mkdir(p, Join(args[1], <<folder>>),
              <<"error creating subfolder ">> \o folder \o <<": ">>,
              IF sub[p] < Len(subfolders(variant))
              THEN /\ sub' = [sub EXCEPT ![p] = @ + 1]
                   /\ UNCHANGED pc
              ELSE /\ pc' = [pc EXCEPT ![p] = createSteps(variant)[1]]
                   /\ UNCHANGED sub)
  /\ UNCHANGED <<variant, args, fs0, exitCode, out, open>>

\* the statements after a file-creation call in createProject: the next
\* call, or return true, nil
Advance(p) ==
  LET next == AfterStep(variant, pc[p])
  IN /\ pc' = [pc EXCEPT ![p] = next]
     /\ result' = [result EXCEPT ![p] =
                     IF next = "exit" THEN [ok |-> TRUE, err |-> NoErr] ELSE @]

\* what a failed f.WriteString(content) can leave in the file: it has
\* written n < len(content) bytes; the two extremes are kept, nothing and
\* all but the last piece
PartialWrites(content) ==
  {SubSeq(content, 1, k) : k \in {0, Len(content) - 1} \cap 0..(Len(content) - 1)}

\* The body shared by the file-creation functions: os.Create(filePath),
\* defer f.Close(), f.WriteString(content).  Each error is printed and the
\* function goes on: after a failed os.Create f is nil, WriteString on it
\* fails too, and nothing is written.  A failed WriteString leaves a proper
\* prefix of the content in the file.
CreateAndWrite(p, path, content, createMsg, writeMsg) ==
  LET e == CreateErr(fs, path)
  IN \/ /\ e = ""
        /\ fs' = Put(fs, path, File(content))
        /\ UNCHANGED <<out, ioFailed, faults>>
     \/ /\ e # ""
        /\ Println(p, <<createMsg \o <<e>>, writeMsg \o <<"invalid argument">>>>)
        /\ ioFailed' = [ioFailed EXCEPT ![p] = TRUE]
        /\ UNCHANGED <<fs, faults>>
     \/ /\ e = ""
        /\ faults < MaxFaults
        /\ faults' = faults + 1
        /\ ioFailed' = [ioFailed EXCEPT ![p] = TRUE]
        /\ \/ /\ Println(p, <<createMsg \o <<"permission denied">>,
                              writeMsg \o <<"invalid argument">>>>)
              /\ UNCHANGED fs
           \/ /\ Println(p, <<writeMsg \o <<"no space left on device">>>>)
              /\ \E partial \in PartialWrites(content) :
                   fs' = Put(fs, path, File(partial))

\* faulty variant: a failed file makes createProject return false at once
FileStepAborts(p, step, path, content, createMsg, writeMsg) ==
  /\ pc[p] = step
  /\ CreateAndWrite(p, path, content, createMsg, writeMsg)
  /\ IF ioFailed'[p] # ioFailed[p]
     THEN /\ pc' = [pc EXCEPT ![p] = "exit"]
          /\ result' = [result EXCEPT ![p] = [ok |-> FALSE, err |-> writeMsg]]
     ELSE Advance(p)
  /\ UNCHANGED <<variant, args, sub, fs0, exitCode, open>>

FileStep(p, step, path, content, createMsg, writeMsg) ==
  /\ pc[p] = step
  /\ CreateAndWrite(p, path, content, createMsg, writeMsg)
  /\ Advance(p)
  /\ UNCHANGED <<variant, args, sub, fs0, exitCode, open>>

createGoMainFile(p) ==
  FileStep(p, "createGoMainFile",
           Join(args[1], <<CmdDir, <<"main.go">>>>),
           mainGoContent(variant, args[1]),
           <<"error creating main.go file: ">>,
           <<"error writing main.go content to file: ">>)

createHtmlFile(p) ==
  FileStep(p, "createHtmlFile",
           Join(args[1], <<TemplateDir(variant), <<"index.html">>>>),
           indexHTMLContent(variant, args[1]),
           <<"error creating index.html file: ">>,
           <<"error writing index.html content to file: ">>)

createDashboardHtmlFile(p) ==
  FileStep(p, "createDashboardHtmlFile",
           Join(args[1], <<TemplateDir(variant), <<"dashboard.html">>>>),
           dashboardHTMLContent(args[1]),
           <<"error creating dashboard.html file: ">>,
           <<"error writing dashboard.html content to file: ">>)

createHtmxFile(p) ==
  FileStep(p, "createHtmxFile",
           Join(args[1], <<StaticDir, <<"htmx.min.js">>>>),
           htmxContent(variant),
           <<"error creating styles.css file: ">>,
           <<"error writing styles.css content to file: ">>)

createTwColorsFile(p) ==
  FileStep(p, "createTwColorsFile",
           Join(args[1], <<StaticDir, <<"twcolors.min.css">>>>),
           twColorsContent,
           <<"error creating twcolors.min.css file: ">>,
           <<"error writing twcolors.min.css content to file: ">>)

createCssFile(p) ==
  FileStep(p, "createCssFile",
           Join(args[1], <<StaticDir, <<"styles.css">>>>),
           cssContent(variant),
           <<"error creating styles.css file: ">>,
           <<"error writing styles.css content to file: ">>)

createIgnoreFile(p) ==
  FileStep(p, "createIgnoreFile",
           Join(args[1], <<<<".gitignore">>>>),
           ignoreContent(variant, args[1]),
           <<"error creating .gitignore file: ">>,
           <<"error writing .gitignore content to file: ">>)

createDotEnvFile(p) ==
  FileStep(p, "createDotEnvFile",
           Join(args[1], <<<<".env">>>>),
           dotenvContent(variant, args[1]),
           <<"error creating .env file: ">>,
           IF variant = "napp" THEN <<"error writing .env content to file: ">>
           ELSE <<"error writing database content to file: ">>)

\* faulty variant: the database file created under a fixed name
sqliteDbPathDataDb(projectName) == <<projectName, <<"data", ".db">>>>

\* faulty variant: the database file put beside main.go
sqliteDbPathInCmd(projectName) ==
  <<projectName, CmdDir, ToLower(projectName) \o <<".db">>>>

\* createSqliteDbFile: os.Create(filePath) only; the handle is dropped
\* without Close
sqliteDbPath(projectName) == Join(projectName, <<dbFilename(projectName)>>)
createSqliteDbFile(p) ==
  /\ pc[p] = "createSqliteDbFile"
  /\ LET path == sqliteDbPath(args[1])
         e == CreateErr(fs, path)
         msg == IF variant = "napp" THEN <<"error creating .env file: ">>
                ELSE <<"error creating database file: ">>
     IN \/ /\ e = ""
           /\ fs' = Put(fs, path, File(<<>>))
           /\ open' = [open EXCEPT ![p] = @ \cup {path}]
           /\ UNCHANGED <<out, ioFailed, faults>>
        \/ /\ e # ""
           /\ Println(p, <<msg \o <<e>>>>)
           /\ ioFailed' = [ioFailed EXCEPT ![p] = TRUE]
           /\ UNCHANGED <<fs, open, faults>>
        \/ /\ e = ""
           /\ faults < MaxFaults
           /\ faults' = faults + 1
           /\ Println(p, <<msg \o <<"permission denied">>>>)
           /\ ioFailed' = [ioFailed EXCEPT ![p] = TRUE]
           /\ UNCHANGED <<fs, open>>
  /\ Advance(p)
  /\ UNCHANGED <<variant, args, sub, fs0, exitCode>>

createMakefile(p) ==
  FileStep(p, "createMakefile",
           Join(args[1], <<<<"Makefile">>>>),
           makefileContent(args[1]),
           <<"error creating Makefile file: ">>,
           <<"error writing Makefile content to file: ">>)

createDockerfile(p) ==
  FileStep(p, "createDockerfile",
           Join(args[1], <<<<"Dockerfile">>>>),
           dockerfileContent(variant, args[1]),
           <<"error creating Dockerfile file: ">>,
           <<"error writing Dockerfile content to file: ">>)

\* what the caller of createProject prints on success
successLinesNapp ==
  <<<<"Project created successfully!">>,
    <<"Please 'cd' into your new project and run 'go mod init <insert-your-init-path> && go mod tidy'">>>>
successLinesCli(v, projectName) ==
  <<<<"Successfully created ">> \o projectName \o <<", next steps:">>,
    <<"cd ">> \o projectName,
    IF v = "embed" THEN <<"go mod init <path/your-project">> ELSE <<"go mod init">>,
    <<"go mod tidy">>,
    IF v = "embed" THEN <<"go run cmd/main.go">> ELSE <<"make all">>>>

\* main after createProject returned (napp): print the error and exit 1, or
\* print the success lines
mainExitNapp(p) ==
  IF result[p].err # NoErr
  THEN /\ Println(p, <<<<"Project creation failed: ">> \o result[p].err>>)
       /\ Exit(p, 1)
  ELSE /\ Println(p, IF result[p].ok THEN successLinesNapp ELSE <<>>)
       /\ Exit(p, 0)

\* the init Action after createProject returned (embed, inline):
\* ok, _ := createProject(projectname); the Action returns nil
mainExitCli(p) ==
  /\ Println(p, IF result[p].ok THEN successLinesCli(variant, args[1]) ELSE <<>>)
  /\ Exit(p, 0)

mainExit(p) ==
  /\ pc[p] = "exit"
  /\ IF HasValidateArgs(variant) THEN mainExitNapp(p) ELSE mainExitCli(p)
  /\ UNCHANGED <<variant, args, fs, sub, fs0, result, open, ioFailed, faults>>

Next ==
  \E p \in Procs :
    \/ Main(p)
    \/ createProjectRoot(p)
    \/ createProjectSubfolder(p)
    \/ createGoMainFile(p)
    \/ createHtmlFile(p)
    \/ createDashboardHtmlFile(p)
    \/ createHtmxFile(p)
    \/ createTwColorsFile(p)
    \/ createCssFile(p)
    \/ createIgnoreFile(p)
    \/ createDotEnvFile(p)
    \/ createSqliteDbFile(p)
    \/ createMakefile(p)
    \/ createDockerfile(p)
    \/ mainExit(p)

Spec == Init /\ [][Next]_vars

\* The same command line started in several processes at once, in the same
\* working directory: every call of the operating system (os.Mkdir,
\* os.Create with the write that follows it) is one step, and the steps of
\* the processes interleave freely.
NextConcurrent ==
  \E p \in Procs :
    \/ Start(p)
    \/ createProjectRoot(p)
    \/ createProjectSubfolder(p)
    \/ createGoMainFile(p)
    \/ createHtmlFile(p)
    \/ createDashboardHtmlFile(p)
    \/ createHtmxFile(p)
    \/ createTwColorsFile(p)
    \/ createCssFile(p)
    \/ createIgnoreFile(p)
    \/ createDotEnvFile(p)
    \/ createSqliteDbFile(p)
    \/ createMakefile(p)
    \/ createDockerfile(p)
    \/ mainExit(p)

SpecConcurrent == Init /\ [][NextConcurrent]_vars

\* A started process runs on: main and createProject have no wait, no
\* input and no loop other than the one over the three subfolders, so the
\* next statement is always executed.
SpecFair == Spec /\ WF_vars(Next)

(***************************************************************************)
(* Vocabulary of the properties                                            *)
(***************************************************************************)
\* ^[a-z0-9-]+$ : one or more pieces, each a lowercase ASCII letter, a digit
\* or a hyphen
NameChars ==
  {"a","b","c","d","e","f","g","h","i","j","k","l","m","n","o","p","q","r",
   "s","t","u","v","w","x","y","z","0","1","2","3","4","5","6","7","8","9","-"}
MatchesPattern(s) == s # <<>> /\ {s[i] : i \in DOMAIN s} \subseteq NameChars

\* invocation p has validated its arguments
Validated(p) == pc[p] # "main"
\* invocation p has called createProject
Called(p) ==
  \/ pc[p] \notin {"main", "done"}
  \/ pc[p] = "done" /\ (result[p].ok \/ result[p].err # NoErr)
\* createProject has returned in invocation p
Returned(p) == pc[p] \in {"exit", "done"} /\ Called(p)
\* ... and every directory and file operation of the run succeeded
Succeeded(p) == Returned(p) /\ result[p].ok /\ ~ioFailed[p]

Root == <<args[1]>>
Under(name, elems) == <<name>> \o elems

\* the name uppercased with every "-" replaced by "_"
UpperSnake(name) ==
  [i \in DOMAIN name |-> IF name[i] = "-" THEN "_" ELSE ToUpperChar(name[i])]

\* the lines of a text
RECURSIVE SplitLines(_, _)
SplitLines(text, line) ==
  IF text = <<>> THEN (IF line = <<>> THEN <<>> ELSE <<line>>)
  ELSE IF Head(text) = "\n" THEN <<line>> \o SplitLines(Tail(text), <<>>)
  ELSE SplitLines(Tail(text), Append(line, Head(text)))
Lines(text) == SplitLines(text, <<>>)
HasLine(text, line) == \E i \in DOMAIN Lines(text) : Lines(text)[i] = line
Contains(text, x) ==
  \E i \in 0..(Len(text) - Len(x)) : SubSeq(text, i + 1, i + Len(x)) = x

IsFile(path) == Exists(fs, path) /\ fs[path].kind = "file"

(***************************************************************************)
(* C1                                                                      *)
(***************************************************************************)
InvalidNameMessages == {ErrInvalidName, OopsName}
RejectedAsInvalid(p) ==
  /\ pc[p] = "done" /\ ~Called(p) /\ exitCode[p] = 1
  /\ Len(out[p]) = 1 /\ out[p][1] \in InvalidNameMessages

\* C1 as stated: a single argument is accepted and the run proceeds to
\* materialization if and only if it matches ^[a-z0-9-]+$, and every other
\* single argument is rejected with the invalid-name error.
C1_AsStated ==
  \A p \in Procs :
    (Len(args) = 1 /\ Validated(p)) =>
       /\ Called(p) <=> MatchesPattern(args[1])
       /\ ~MatchesPattern(args[1]) => RejectedAsInvalid(p)

\* C1 amended: a single argument is accepted if and only if it matches
\* ^[a-z0-9-]+$ and is not the literal --help that validateArgs answers with
\* the usage text and exit status 0; every single argument that does not
\* match is rejected with the invalid-name error.
C1_AcceptsExactlyMatching ==
  \A p \in Procs :
    (Len(args) = 1 /\ Validated(p)) =>
       /\ Called(p) <=>
            (MatchesPattern(args[1]) /\ ~(HasValidateArgs(variant) /\ args[1] = HelpFlag))
       /\ ~MatchesPattern(args[1]) => RejectedAsInvalid(p)
       /\ (HasValidateArgs(variant) /\ args[1] = HelpFlag) =>
            (pc[p] = "done" /\ exitCode[p] = 0 /\ out[p] = <<UsageText>>)

C1_Witness ==
  /\ Len(args) = 1 /\ MatchesPattern(args[1]) /\ Len(args[1]) = 2
  /\ pc[1] = "createProject"

(***************************************************************************)
(* C2                                                                      *)
(***************************************************************************)
\* the fixed set of entries of the variant, as <<path below the root, kind>>
ExpectedDirs(v) ==
  {<<<<"cmd">>>>, <<IF v = "napp" THEN <<"templates">> ELSE <<"template">>>>,
   <<<<"static">>>>}
ExpectedFiles(v, name) ==
  {<<<<"cmd">>, <<"main.go">>>>,
   <<<<"static">>, <<"htmx.min.js">>>>, <<<<"static">>, <<"styles.css">>>>,
   <<<<".gitignore">>>>, <<<<".env">>>>, <<ToLower(name) \o <<".db">>>>}
  \cup (IF v = "napp" THEN {<<<<"templates">>, <<"index.html">>>>}
        ELSE {<<<<"template">>, <<"index.html">>>>,
              <<<<"template">>, <<"dashboard.html">>>>,
              <<<<"static">>, <<"twcolors.min.css">>>>,
              <<<<"Dockerfile">>>>})
  \cup (IF v = "inline" THEN {<<<<"Makefile">>>>} ELSE {})
EntriesUnder(f, name, kind) ==
  {Tail(path) : path \in {q \in DOMAIN f : Len(q) >= 2 /\ q[1] = name /\ f[q].kind = kind}}

\* C2: createProject with a valid name whose root directory did not exist,
\* with no file system failure, ends with the root directory holding exactly
\* the fixed set of directories and files of the variant.
C2_ExactTree ==
  \A p \in Procs :
    (Succeeded(p) /\ ~Exists(fs0[p], Root)) =>
       /\ IsDir(fs, Root) /\ Exists(fs, Root)
       /\ EntriesUnder(fs, args[1], "dir") = ExpectedDirs(variant)
       /\ EntriesUnder(fs, args[1], "file") = ExpectedFiles(variant, args[1])

C2_Witness ==
  /\ pc[1] = "done" /\ Succeeded(1) /\ ~Exists(fs0[1], Root)
  /\ variant = "inline" /\ Len(args[1]) = 2

(***************************************************************************)
(* C3                                                                      *)
(***************************************************************************)
DirectoryExistsError == <<"error creating project directory: ", "file exists">>

\* C3: an invocation that finds the root directory already there gets the
\* directory-creation (already exists) error from createProject and leaves
\* the file system exactly as it found it.
C3_SecondRunFailsUnchanged ==
  \A p \in Procs :
    (Len(args) = 1 /\ Called(p) /\ Exists(fs0[p], Root)) =>
       /\ fs = fs0[p]
       /\ Returned(p) => (~result[p].ok /\ result[p].err = DirectoryExistsError)
       /\ pc[p] \in {"createProject", "exit", "done"}

C3_Witness ==
  /\ pc[1] = "done" /\ Succeeded(1)
  /\ pc[2] = "done" /\ Called(2) /\ Exists(fs0[2], Root)
  /\ result[2].err = DirectoryExistsError

(***************************************************************************)
(* C4                                                                      *)
(***************************************************************************)
ValidationFailed(p) ==
  pc[p] = "done" /\ ~Called(p) /\ ~(Len(args) = 1 /\ args[1] = HelpFlag)
CreationFailed(p) == Returned(p) /\ result[p].err # NoErr

\* C4: every run that fails validation or project creation prints a message
\* and exits with status 1; status 0 comes only from a successful creation
\* or from the help display.
C4_FailureExitsOne ==
  \A p \in Procs :
    pc[p] = "done" =>
       /\ (ValidationFailed(p) \/ CreationFailed(p)) =>
             (exitCode[p] = 1 /\ out[p] # <<>>)
       /\ exitCode[p] = 0 =>
             ((Called(p) /\ result[p].ok) \/ out[p] = <<UsageText>>)

(***************************************************************************)
(* C5                                                                      *)
(***************************************************************************)
NoArgumentsMessages == {ErrNoArguments, OopsCount(0)}
TooManyArgumentsMessages == {ErrTooManyArguments} \cup {OopsCount(n) : n \in 2..9}

FailsWith(p, messages) ==
  /\ pc[p] = "done" /\ ~Called(p) /\ exitCode[p] # 0 /\ exitCode[p] # -1
  /\ Len(out[p]) = 1 /\ out[p][1] \in messages

\* C5: no arguments, two or more arguments and a single argument that does
\* not match the pattern are three distinct failures, each with its own
\* message and a non-zero exit status.
C5_DistinctFailures ==
  /\ NoArgumentsMessages \cap TooManyArgumentsMessages = {}
  /\ NoArgumentsMessages \cap InvalidNameMessages = {}
  /\ TooManyArgumentsMessages \cap InvalidNameMessages = {}
  /\ \A p \in Procs :
       Validated(p) =>
         /\ Len(args) = 0 => FailsWith(p, NoArgumentsMessages)
         /\ Len(args) >= 2 => FailsWith(p, TooManyArgumentsMessages)
         /\ (Len(args) = 1 /\ ~MatchesPattern(args[1])) =>
               FailsWith(p, InvalidNameMessages)

C5_Witness ==
  /\ Len(args) = 2 /\ pc[1] = "done" /\ exitCode[1] = 1
  /\ out[1][1] \in TooManyArgumentsMessages

(***************************************************************************)
(* C6                                                                      *)
(***************************************************************************)
\* C6: in the build whose validator is validateArgs, the single argument
\* --help prints the usage text, exits with status 0 and creates or changes
\* nothing in the file system.  (In the other builds --help is a flag of the
\* command line library and never an argument of the Action's validator.)
C6_HelpTouchesNothing ==
  \A p \in Procs :
    (HasValidateArgs(variant) /\ args = <<HelpFlag>> /\ Validated(p)) =>
       /\ pc[p] = "done" /\ ~Called(p)
       /\ exitCode[p] = 0
       /\ out[p] = <<UsageText>>
       /\ fs = fs0[p] /\ fs = EmptyFs

C6_Witness ==
  /\ HasValidateArgs(variant) /\ args = <<HelpFlag>>
  /\ pc[1] = "done" /\ pc[2] = "done" /\ exitCode[2] = 0

(***************************************************************************)
(* C7                                                                      *)
(***************************************************************************)
HasSessions(v) == v \in {"embed", "inline"}
EnvPath == Under(args[1], <<<<".env">>>>)

\* C7: after a successful run .env holds the line <U>_DB_PATH="<name>.db",
\* <U> the name uppercased with "-" replaced by "_"; with session support it
\* also holds <U>_COOKIE_STORE_SECRET="secret".
C7_DotEnvLine ==
  \A p \in Procs :
    Succeeded(p) =>
       /\ IsFile(EnvPath)
       /\ HasLine(fs[EnvPath].content,
                  UpperSnake(args[1]) \o <<"_DB_PATH", "=\"">> \o args[1]
                     \o <<".db", "\"">>)
       /\ HasSessions(variant) =>
            Contains(fs[EnvPath].content,
                     UpperSnake(args[1])
                        \o <<"_COOKIE_STORE_SECRET", "=\"", "secret", "\"">>)

C7_Witness ==
  /\ Succeeded(1) /\ pc[1] = "done" /\ HasSessions(variant)
  /\ \E i \in DOMAIN args[1] : args[1][i] = "-"
  /\ \E i \in DOMAIN args[1] : args[1][i] = "a"

(***************************************************************************)
(* C8                                                                      *)
(***************************************************************************)
DbPath == Under(args[1], <<ToLower(args[1]) \o <<".db">>>>)

\* C8: after a successful run <lowercased-name>.db is a regular file of
\* length zero directly under the root, and at no moment does the file hold
\* any content.
C8_EmptyDbFile ==
  /\ \A p \in Procs : Succeeded(p) => (IsFile(DbPath) /\ Len(fs[DbPath].content) = 0)
  /\ (Len(args) = 1 /\ Exists(fs, DbPath)) => fs[DbPath] = File(<<>>)

C8_Witness == Succeeded(1) /\ pc[1] = "done" /\ IsFile(DbPath)

(***************************************************************************)
(* C9                                                                      *)
(***************************************************************************)
HasPlaceholders(text) == \E i \in DOMAIN text : text[i] = "%s"
Unfilled(text) ==
  \E i \in DOMAIN text : text[i] \in {"%s", "%!s(MISSING)", "%!(EXTRA "}
MainGoPath == Under(args[1], <<<<"cmd">>, <<"main.go">>>>)

\* C9: in the builds whose cmd/main.go body has placeholders, the generated
\* file has the cookie-store lookup filled with <U>_COOKIE_STORE_SECRET and
\* the database lookup with <U>_DB_PATH, in this order, and in every build
\* no placeholder is left unfilled.
C9_MainGoPlaceholders ==
  \A p \in Procs :
    Succeeded(p) =>
       /\ IsFile(MainGoPath)
       /\ ~Unfilled(fs[MainGoPath].content)
       /\ variant # "napp" =>
            /\ HasPlaceholders(mainGoTemplate)
            /\ fs[MainGoPath].content =
                 <<mainGoTemplate[1]>>
                   \o UpperSnake(args[1]) \o <<"_COOKIE_STORE_SECRET">>
                   \o <<mainGoTemplate[3]>>
                   \o UpperSnake(args[1]) \o <<"_DB_PATH">>
                   \o <<mainGoTemplate[5]>>

C9_Witness ==
  /\ Succeeded(1) /\ pc[1] = "done" /\ variant = "embed"
  /\ \E i \in DOMAIN args[1] : args[1][i] = "-"

(***************************************************************************)
(* C10                                                                     *)
(***************************************************************************)
IgnorePath == Under(args[1], <<<<".gitignore">>>>)

\* C10: for every valid name the generated .gitignore has an entry equal to
\* lowercase(name) + ".db" and an entry ".env".
C10_IgnoreEntries ==
  \A p \in Procs :
    Succeeded(p) =>
       /\ IsFile(IgnorePath)
       /\ HasLine(fs[IgnorePath].content, ToLower(args[1]) \o <<".db">>)
       /\ HasLine(fs[IgnorePath].content, <<".env">>)

(***************************************************************************)
(* C11                                                                     *)
(***************************************************************************)
ValidName == Len(args) = 1 /\ MatchesPattern(args[1])
HasLetter(s) == \E i \in DOMAIN s : s[i] \in LowerLetters
HasHyphen(s) == \E i \in DOMAIN s : s[i] = "-"
UpperOf(c) == IF c \in LowerLetters THEN UpperSeq[IndexOf(LowerSeq, c)] ELSE c

\* the upper snake case forms the run has computed: the value of the
\* function, and what a successful run has put at the head of .env
UpperSnakeApplied ==
  {envVarName(args[1])}
    \cup {SubSeq(fs[EnvPath].content, 1, Len(args[1])) :
            p \in {q \in Procs : Succeeded(q)}}

\* C11: for a valid name the upper snake case form has the length of the
\* name, "_" exactly where the name has "-", the uppercase of the character
\* everywhere else, and is a fixed point of the function.
C11_UpperSnakeCase ==
  ValidName =>
    \A u \in UpperSnakeApplied :
       /\ Len(u) = Len(args[1])
       /\ \A i \in DOMAIN args[1] :
            /\ u[i] = "_" <=> args[1][i] = "-"
            /\ args[1][i] # "-" => u[i] = UpperOf(args[1][i])
       /\ envVarName(u) = u

C11_Witness ==
  /\ ValidName /\ HasLetter(args[1]) /\ HasHyphen(args[1])
  /\ variant = "napp" /\ Succeeded(1)
  /\ SubSeq(fs[EnvPath].content, 1, Len(args[1])) # args[1]

(***************************************************************************)
(* C12                                                                     *)
(***************************************************************************)
HasTitle(v) == v \in {"embed", "inline"}
IndexPath == Under(args[1], <<TemplateDir(variant), <<"index.html">>>>)

\* position i of the name holds the first letter of its hyphen-delimited
\* segment
FirstLetterOfSegment(name, i) ==
  /\ name[i] \in LowerLetters
  /\ \A j \in 1..(i - 1) :
       name[j] \in LowerLetters => \E k \in j..(i - 1) : name[k] = "-"

\* the title case forms the run has computed: the value of the function, and
\* what a successful run has put into the first placeholder of index.html
TitleApplied ==
  {title(args[1])}
    \cup {SubSeq(fs[IndexPath].content, 2, Len(args[1]) + 1) :
            p \in {q \in Procs : HasTitle(variant) /\ Succeeded(q)}}

\* C12: for a valid name the title case form has the length of the name, a
\* space exactly where the name has a hyphen and no hyphen, the first letter
\* of every hyphen-delimited segment in upper case, is a fixed point of the
\* function, and differs from the name when the name has a letter or a
\* hyphen.
C12_TitleCase ==
  ValidName =>
    \A t \in TitleApplied :
       /\ Len(t) = Len(args[1])
       /\ \A i \in DOMAIN args[1] :
            /\ t[i] = " " <=> args[1][i] = "-"
            /\ t[i] # "-"
            /\ FirstLetterOfSegment(args[1], i) => t[i] = UpperOf(args[1][i])
       /\ title(t) = t
       /\ (HasLetter(args[1]) \/ HasHyphen(args[1])) => t # args[1]

C12_Witness ==
  /\ ValidName /\ HasLetter(args[1]) /\ HasHyphen(args[1])
  /\ HasTitle(variant) /\ Succeeded(1)
  /\ SubSeq(fs[IndexPath].content, 2, Len(args[1]) + 1) = title(args[1])

(***************************************************************************)
(* C13                                                                     *)
(***************************************************************************)
RootErrorPrefix == "error creating project directory: "
\* invocation p has made its call of os.Mkdir for the root directory
AttemptedRoot(p) == Called(p) /\ pc[p] # "createProject"
\* ... and the call failed
LostRoot(p) ==
  AttemptedRoot(p) /\ result[p].err # NoErr /\ Head(result[p].err) = RootErrorPrefix
CreatedRoot(p) == AttemptedRoot(p) /\ ~LostRoot(p)
\* no root creation failed for a reason other than the race
NoRootFault ==
  \A p \in Procs : LostRoot(p) => result[p].err = DirectoryExistsError
Racers == {p \in Procs : AttemptedRoot(p)}

\* of the invocations racing for one root directory exactly one creates it;
\* each of the others gets the directory-exists error from os.Mkdir and
\* never enters the tree
RaceHasOneWinner ==
  (ValidName /\ NoRootFault /\ Cardinality(Racers) >= 2) =>
     /\ Cardinality({p \in Racers : CreatedRoot(p)}) = 1
     /\ \A q \in Racers :
          LostRoot(q) =>
             /\ ~result[q].ok /\ result[q].err = DirectoryExistsError
             /\ pc[q] \in {"exit", "done"} /\ sub[q] = 1 /\ open[q] = {}

\* the loser of the race ends with the directory-exists error printed and
\* exit status 1
LoserSurfacesError ==
  \A q \in Procs :
    (ValidName /\ NoRootFault /\ LostRoot(q) /\ pc[q] = "done") =>
       /\ exitCode[q] = 1
       /\ \E i \in DOMAIN out[q] : Contains(out[q][i], <<"file exists">>)

\* C13: when invocations with the same valid name run at once in one working
\* directory, under every interleaving exactly one creates the root
\* directory; each other one fails at the root directory, surfaces the
\* directory-exists error and creates or writes nothing in the tree.
C13_RaceLoserSurfaces == RaceHasOneWinner /\ LoserSurfacesError

(***************************************************************************)
(* C14                                                                     *)
(***************************************************************************)
SuccessMessage ==
  IF HasValidateArgs(variant) THEN <<"Project created successfully!">>
  ELSE <<"Successfully created ">> \o args[1] \o <<", next steps:">>
SuccessPrinted(p) == \E i \in DOMAIN out[p] : out[p][i] = SuccessMessage

\* C14: the success message is printed and createProject returns true
\* exactly on full success: both happen when every directory and file was
\* created and written, neither happens in a run in which a directory
\* creation, a file creation or a file write failed.
C14_SuccessExactlyOnFullSuccess ==
  \A p \in Procs :
    (pc[p] = "done" /\ Called(p)) =>
       /\ Succeeded(p) => (SuccessPrinted(p) /\ result[p].ok)
       /\ ioFailed[p] => (~SuccessPrinted(p) /\ ~result[p].ok)

(***************************************************************************)
(* C15                                                                     *)
(***************************************************************************)
FileSteps == {createSteps(variant)[i] : i \in DOMAIN createSteps(variant)}
FilesOf(f) == {path \in DOMAIN f : f[path].kind = "file"}
\* no invocation after p has started
Latest(p) == \A q \in Procs : q > p => pc[q] = "main"

\* C15: an invocation is at or past a file-creation call only when the root
\* directory and the three subdirectories cmd, template(s) and static
\* exist; an invocation whose directory creation failed has created or
\* written no file.
C15_DirectoriesBeforeFiles ==
  \A p \in Procs :
    /\ (pc[p] \in FileSteps \/ (Returned(p) /\ result[p].ok)) =>
          /\ IsDir(fs, Root) /\ Exists(fs, Root)
          /\ \A d \in ExpectedDirs(variant) :
               Exists(fs, Under(args[1], d)) /\ IsDir(fs, Under(args[1], d))
    /\ (Returned(p) /\ result[p].err # NoErr /\ Latest(p)) =>
          /\ ~result[p].ok
          /\ FilesOf(fs) = FilesOf(fs0[p])
          /\ open[p] = {}

C15_Witness ==
  /\ pc[1] = "createGoMainFile" /\ ~IsFile(MainGoPath)
  /\ \A d \in ExpectedDirs(variant) : Exists(fs, Under(args[1], d))
  /\ FilesOf(fs) = {}

(***************************************************************************)
(* C16                                                                     *)
(***************************************************************************)
\* the call that follows the file-creation call p is at, "exit" for the
\* return of createProject
NextCall(p) ==
  LET steps == createSteps(variant)
      i == CHOOSE k \in DOMAIN steps : steps[k] = pc[p]
  IN IF i = Len(steps) THEN "exit" ELSE steps[i + 1]
\* a file creation or write of invocation p has failed, no directory creation
FileFailed(p) ==
  /\ ioFailed[p] /\ result[p].err = NoErr
  /\ pc[p] \in {"exit", "done"} => result[p].ok

\* C16: every file-creation call, failed or not, is followed by the next
\* call or by the return of (true, nil); a failure is printed, the process
\* goes on, and nothing that exists is removed or changed except the file
\* of the call.
C16_FileFailureOnlyPrinted ==
  [][\A p \in Procs :
       (pc[p] \in FileSteps /\ pc'[p] # pc[p]) =>
          /\ pc'[p] = NextCall(p)
          /\ exitCode'[p] = -1
          /\ pc'[p] = "exit" => result'[p] = [ok |-> TRUE, err |-> NoErr]
          /\ pc'[p] # "exit" => result'[p] = result[p]
          /\ (ioFailed'[p] # ioFailed[p] \/ faults' # faults) =>
                Len(out'[p]) > Len(out[p])
          /\ \A path \in DOMAIN fs :
               /\ path \in DOMAIN fs'
               /\ fs'[path] # fs[path] => fs[path].kind = "file"
          /\ Cardinality(DOMAIN fs' \ DOMAIN fs) <= 1]_vars

C16_Witness ==
  /\ pc[1] = "done" /\ FileFailed(1) /\ result[1] = [ok |-> TRUE, err |-> NoErr]
  /\ ~IsFile(MainGoPath) /\ IsFile(EnvPath) /\ IsFile(DbPath)
  /\ Len(out[1]) >= 2

(***************************************************************************)
(* C17                                                                     *)
(***************************************************************************)
SubfolderErrorPrefix == "error creating subfolder "
\* createProject of invocation p has returned the error of a subfolder
SubfolderFailed(p) ==
  Returned(p) /\ result[p].err # NoErr /\ Head(result[p].err) = SubfolderErrorPrefix

\* C17: no step removes or renames anything: every directory and file that
\* exists before a step exists after it, with the same kind; the step in
\* which createProject fails leaves the file system as it is.
C17_OnlyGrows ==
  [][/\ \A path \in DOMAIN fs :
          path \in DOMAIN fs' /\ fs'[path].kind = fs[path].kind
     /\ \A p \in Procs :
          (result'[p].err # NoErr /\ result[p].err = NoErr) => fs' = fs]_vars

C17_Witness ==
  /\ pc[1] = "done" /\ SubfolderFailed(1)
  /\ Exists(fs, Root) /\ Exists(fs, Under(args[1], <<<<"cmd">>>>))
  /\ pc[2] = "done"

(***************************************************************************)
(* C18                                                                     *)
(***************************************************************************)
SubdirOrder(v) ==
  <<"cmd", IF v = "napp" THEN "templates" ELSE "template", "static">>
SubdirPath(k) == Under(args[1], <<<<SubdirOrder(variant)[k]>>>>)

\* C18: a failed subfolder creation makes createProject return false and an
\* error naming the subfolder; the subfolders are tried in the order cmd,
\* template(s), static; the ones before the failed one and the root are in
\* place, the failed one and the ones after it are not there, and no file
\* was created.
C18_SubfolderFailureIsFatal ==
  \A p \in Procs :
    SubfolderFailed(p) =>
       /\ ~result[p].ok
       /\ \E k \in 1..3 :
            /\ sub[p] = k
            /\ Len(result[p].err) = 4 /\ result[p].err[2] = SubdirOrder(variant)[k]
            /\ IsDir(fs, Root) /\ Exists(fs, Root)
            /\ \A j \in 1..(k - 1) : Exists(fs, SubdirPath(j)) /\ IsDir(fs, SubdirPath(j))
            /\ \A j \in k..3 : ~Exists(fs, SubdirPath(j))
       /\ FilesOf(fs) = {}

C18_Witness ==
  /\ pc[1] = "done" /\ SubfolderFailed(1) /\ result[1].err[2] = "static"
  /\ Exists(fs, SubdirPath(1)) /\ Exists(fs, SubdirPath(2)) /\ ~Exists(fs, SubdirPath(3))

(***************************************************************************)
(* C19                                                                     *)
(***************************************************************************)
\* C19: createProject is called only with a valid name; when validation
\* fails (no argument, several arguments, a name that does not match) the
\* run ends without the call and with the file system untouched, and with
\* a wrong number of arguments the message is the one of the count, whatever
\* the arguments look like.
C19_ValidatorGates ==
  \A p \in Procs :
    /\ Called(p) => ValidName
    /\ (Validated(p) /\ ~ValidName) =>
          /\ pc[p] = "done" /\ ~Called(p) /\ exitCode[p] = 1
          /\ fs = fs0[p] /\ fs = EmptyFs
          /\ Len(out[p]) = 1
          /\ Len(args) # 1 =>
               out[p][1] \in NoArgumentsMessages \cup TooManyArgumentsMessages

C19_Witness ==
  /\ Len(args) = 2 /\ ~MatchesPattern(args[1]) /\ ~MatchesPattern(args[2])
  /\ pc[1] = "done" /\ pc[2] = "done" /\ fs = EmptyFs
  /\ out[2][1] \in TooManyArgumentsMessages

(***************************************************************************)
(* C20                                                                     *)
(***************************************************************************)
\* C20: in validateArgs --help counts only as the single argument: a longer
\* argument list holding --help gets the too-many-arguments error and exit
\* status 1; the single argument --help, which matches the name pattern,
\* ends the run with status 0 and never reaches createProject.
C20_HelpAfterCountChecks ==
  HasValidateArgs(variant) =>
    \A p \in Procs :
      Validated(p) =>
         /\ (Len(args) >= 2 /\ \E i \in DOMAIN args : args[i] = HelpFlag) =>
               (FailsWith(p, {ErrTooManyArguments}) /\ exitCode[p] = 1)
         /\ args = <<HelpFlag>> =>
               /\ MatchesPattern(args[1])
               /\ pc[p] = "done" /\ ~Called(p) /\ exitCode[p] = 0

C20_Witness ==
  /\ HasValidateArgs(variant) /\ args = <<HelpFlag, <<"a">>>>
  /\ pc[1] = "done" /\ exitCode[1] = 1 /\ out[1] = <<ErrTooManyArguments>>

(***************************************************************************)
(* C21                                                                     *)
(***************************************************************************)
\* the template with every placeholder replaced by value
RECURSIVE Fill(_, _)
Fill(template, value) ==
  IF template = <<>> THEN <<>>
  ELSE (IF Head(template) = "%s" THEN value ELSE <<Head(template)>>)
         \o Fill(Tail(template), value)
\* the display form of the name: hyphens to spaces, first letter of every
\* word in upper case
DisplayForm(name) ==
  [i \in DOMAIN name |->
     IF name[i] = "-" THEN " "
     ELSE IF FirstLetterOfSegment(name, i) THEN UpperOf(name[i]) ELSE name[i]]
DashboardPath == Under(args[1], <<TemplateDir(variant), <<"dashboard.html">>>>)

\* C21: no file of a successful run holds a placeholder, a missing-operand
\* marker or an extra-operand marker, so every template had as many
\* operands as placeholders; the HTML files are their templates with every
\* placeholder filled with the title case of the name.
C21_PlaceholdersMatchOperands ==
  \A p \in Procs :
    Succeeded(p) =>
       /\ \A path \in FilesOf(fs) : ~Unfilled(fs[path].content)
       /\ HasTitle(variant) =>
            /\ fs[IndexPath].content = Fill(indexHTMLTemplate, DisplayForm(args[1]))
            /\ fs[DashboardPath].content = Fill(dashboardHTMLTemplate, DisplayForm(args[1]))

C21_Witness ==
  /\ Succeeded(1) /\ pc[1] = "done" /\ variant = "embed"
  /\ HasLetter(args[1]) /\ HasHyphen(args[1])
  /\ IsFile(IndexPath) /\ IsFile(DashboardPath)
  /\ Len(fs[IndexPath].content) = Len(indexHTMLTemplate) + 4 * (Len(args[1]) - 1)

(***************************************************************************)
(* C22                                                                     *)
(***************************************************************************)
HasDockerfile(v) == v \in {"embed", "inline"}
DockerfilePath == Under(args[1], <<<<"Dockerfile">>>>)
\* the places at which the name stands in the text
NamePositions(text, name) ==
  {i \in 1..(Len(text) - Len(name) + 1) : SubSeq(text, i, i + Len(name) - 1) = name}
\* the piece of the text before position i
Before(text, i) == IF i = 1 THEN "" ELSE text[i - 1]

HtmxPath == Under(args[1], <<<<"static">>, <<"htmx.min.js">>>>)
TwColorsPath == Under(args[1], <<<<"static">>, <<"twcolors.min.css">>>>)
CssPath == Under(args[1], <<<<"static">>, <<"styles.css">>>>)
HasPalette(v) == v \in {"embed", "inline"}
\* no piece of the text is a character of a run-time value
AllLiteral(text) == \A i \in DOMAIN text : text[i] \notin NameChars

\* C23: after a successful run each static asset holds the body the build
\* carries for it, whatever the project name: the body is a constant of the
\* build and no piece of it comes from the name.
C23_StaticAssetsVerbatim ==
  \A p \in Procs :
    Succeeded(p) =>
       /\ fs[HtmxPath].content =
            (IF HasValidateArgs(variant) THEN htmxContentNapp ELSE htmxContentCli)
       /\ fs[CssPath].content =
            (IF HasValidateArgs(variant) THEN cssContentNapp ELSE cssContentCli)
       /\ HasPalette(variant) => fs[TwColorsPath].content = twColorsContent
       /\ AllLiteral(fs[HtmxPath].content) /\ AllLiteral(fs[CssPath].content)
       /\ HasPalette(variant) => AllLiteral(fs[TwColorsPath].content)

C23_Witness ==
  /\ Succeeded(1) /\ pc[1] = "done" /\ HasPalette(variant) /\ HasLetter(args[1])
  /\ IsFile(HtmxPath) /\ IsFile(TwColorsPath) /\ IsFile(CssPath)
  /\ fs[CssPath].content = cssContentCli

(***************************************************************************)
(* C24                                                                     *)
(***************************************************************************)
\* entry point, HTML template(s), static assets, .gitignore, .env, database
\* file, Makefile, Dockerfile
CallOrder ==
  <<"createGoMainFile", "createHtmlFile", "createDashboardHtmlFile",
    "createHtmxFile", "createTwColorsFile", "createCssFile", "createIgnoreFile",
    "createDotEnvFile", "createSqliteDbFile", "createMakefile", "createDockerfile">>
Rank(step) == CHOOSE k \in DOMAIN CallOrder : CallOrder[k] = step
\* the calls the build has, by their rank in CallOrder
RanksOf(v) ==
  CASE v = "napp" -> {1, 2, 4, 6, 7, 8, 9}
    [] v = "embed" -> {1, 2, 3, 4, 5, 6, 7, 8, 9, 11}
    [] v = "inline" -> 1..11
\* the step of invocation p is a file-creation call
FileCall(p) == pc[p] \in FileSteps /\ pc'[p] # pc[p]

\* C24: once the four directories exist the file-creation calls are made in
\* the fixed order, each call of the build exactly once: the first call
\* follows the last subfolder, every call is followed by the next call of
\* the build in the order or, after the last, by the return; no call is made
\* again; and every run ends.
C24_EachStepOnceInOrder ==
  /\ [][\A p \in Procs :
          /\ (pc'[p] \in FileSteps /\ pc'[p] # pc[p] /\ pc[p] \notin FileSteps) =>
                (pc[p] = "subfolders" /\ \A k \in RanksOf(variant) : Rank(pc'[p]) <= k)
          /\ FileCall(p) =>
                /\ Rank(pc[p]) \in RanksOf(variant)
                /\ IF \E k \in RanksOf(variant) : k > Rank(pc[p])
                   THEN /\ pc'[p] \in FileSteps
                        /\ Rank(pc'[p]) \in RanksOf(variant)
                        /\ Rank(pc'[p]) > Rank(pc[p])
                        /\ \A k \in RanksOf(variant) :
                             k > Rank(pc[p]) => Rank(pc'[p]) <= k
                   ELSE pc'[p] = "exit"]_vars
  /\ <>(\A p \in Procs : pc[p] = "done")

C24_Witness ==
  /\ variant = "inline" /\ pc[1] = "createDockerfile"
  /\ IsFile(Under(args[1], <<<<"Makefile">>>>)) /\ IsFile(DbPath)
  /\ ~Exists(fs, DockerfilePath)

(***************************************************************************)
(* C25                                                                     *)
(***************************************************************************)
\* C25: when createProject returns, no file handle it opened is still open.
C25_HandlesClosed ==
  \A p \in Procs : Returned(p) => open[p] = {}

(***************************************************************************)
(* C26                                                                     *)
(***************************************************************************)
\* the pieces of cmd/main.go that end with os.Getenv(" and the ones that
\* start with the closing ")
GetenvOpeners == {mainGoContentNapp[1], mainGoTemplate[1], mainGoTemplate[3]}
GetenvClosers == {mainGoContentNapp[3], mainGoTemplate[3], mainGoTemplate[5]}
\* the names the generated program passes to os.Getenv
GetenvNames(text) ==
  {SubSeq(text, i + 1, j - 1) :
     <<i, j>> \in {ij \in (DOMAIN text) \X (DOMAIN text) :
                     /\ ij[1] < ij[2]
                     /\ text[ij[1]] \in GetenvOpeners
                     /\ text[ij[2]] \in GetenvClosers
                     /\ \A k \in (ij[1] + 1)..(ij[2] - 1) :
                          text[k] \notin GetenvOpeners \cup GetenvClosers}}
\* the text has an assignment NAME="..." at the start of a line
DefinesVariable(text, name) ==
  \E i \in 1..(Len(text) - Len(name)) :
    /\ SubSeq(text, i, i + Len(name)) = name \o <<"=\"">>
    /\ i = 1 \/ text[i - 1] \in {"\n", "\t"}

\* C26: every environment variable the generated cmd/main.go reads is
\* defined by the generated .env.
C26_MainGoReadsWhatEnvDefines ==
  \A p \in Procs :
    Succeeded(p) =>
       /\ GetenvNames(fs[MainGoPath].content) # {}
       /\ \A name \in GetenvNames(fs[MainGoPath].content) :
            DefinesVariable(fs[EnvPath].content, name)

(***************************************************************************)
(* C27                                                                     *)
(***************************************************************************)
\* the value of the _DB_PATH assignment of the text
DbPathValue(text) ==
  LET i == CHOOSE k \in DOMAIN text : text[k] = "_DB_PATH"
      j == CHOOSE k \in (i + 2)..Len(text) :
             text[k] = "\"" /\ \A m \in (i + 2)..(k - 1) : text[m] # "\""
  IN SubSeq(text, i + 2, j - 1)

\* C27: a valid name is its own lowercase form; after a successful run the
\* value of the _DB_PATH assignment in .env is name + ".db", and the file of
\* that name directly under the root is the empty database file the run
\* created.
C27_DbFileIsWhatEnvPointsTo ==
  ValidName =>
    /\ ToLower(args[1]) = args[1]
    /\ \A p \in Procs :
         Succeeded(p) =>
            /\ DbPathValue(fs[EnvPath].content) = args[1] \o <<".db">>
            /\ IsFile(Under(args[1], <<DbPathValue(fs[EnvPath].content)>>))
            /\ Under(args[1], <<DbPathValue(fs[EnvPath].content)>>) \in open[p]

C27_Witness ==
  /\ ValidName /\ HasLetter(args[1]) /\ Succeeded(1) /\ pc[1] = "exit"
  /\ IsFile(Under(args[1], <<DbPathValue(fs[EnvPath].content)>>))
  /\ variant = "napp"

(***************************************************************************)
(* C28                                                                     *)
(***************************************************************************)
PathBreakers == {"/", ".", "\\", ".."}
\* the path component is one plain name: no piece of it is a separator or
\* a dot on its own
PlainComponent(c) == \A i \in DOMAIN c : c[i] \notin PathBreakers

\* C28: createProject is called only with a name that holds no "/", "." or
\* backslash, and every directory and file that exists is the directory of
\* that name or lies below it, every component of its path a plain name.
C28_StaysInsideRoot ==
  /\ \A p \in Procs :
       Called(p) => (Len(args[1]) >= 1 /\ PlainComponent(args[1]))
  /\ \A path \in DOMAIN fs :
       /\ Len(path) >= 1 /\ path[1] = args[1]
       /\ \A k \in DOMAIN path : PlainComponent(path[k])

C28_Witness ==
  /\ Succeeded(1) /\ pc[1] = "done" /\ HasHyphen(args[1])
  /\ Cardinality(DOMAIN fs) >= 11
  /\ \A path \in DOMAIN fs : path[1] = args[1]

(***************************************************************************)
(* C29                                                                     *)
(***************************************************************************)
\* the tree of build v for the name, as <<path below the root, kind,
\* content>>: a function of v and the name only
TreeOf(v, name) ==
  {<<<<>>, "dir", <<>>>>}
    \cup {<<d, "dir", <<>>>> : d \in ExpectedDirs(v)}
    \cup {<<<<<<"cmd">>, <<"main.go">>>>, "file", mainGoContent(v, name)>>,
          <<<<TemplateDir(v), <<"index.html">>>>, "file", indexHTMLContent(v, name)>>,
          <<<<<<"static">>, <<"htmx.min.js">>>>, "file", htmxContent(v)>>,
          <<<<<<"static">>, <<"styles.css">>>>, "file", cssContent(v)>>,
          <<<<<<".gitignore">>>>, "file", ignoreContent(v, name)>>,
          <<<<<<".env">>>>, "file", dotenvContent(v, name)>>,
          <<<<ToLower(name) \o <<".db">>>>, "file", <<>>>>}
    \cup (IF v = "napp" THEN {}
          ELSE {<<<<TemplateDir(v), <<"dashboard.html">>>>, "file", dashboardHTMLContent(name)>>,
                <<<<<<"static">>, <<"twcolors.min.css">>>>, "file", twColorsContent>>,
                <<<<<<"Dockerfile">>>>, "file", dockerfileContent(v, name)>>})
    \cup (IF v = "inline"
          THEN {<<<<<<"Makefile">>>>, "file", makefileContent(name)>>}
          ELSE {})
\* the tree on disk, in the same form
TreeOnDisk ==
  {<<Tail(path), fs[path].kind, fs[path].content>> : path \in DOMAIN fs}
\* the value of the _COOKIE_STORE_SECRET assignment of the text
SecretValue(text) ==
  LET i == CHOOSE k \in DOMAIN text : text[k] = "_COOKIE_STORE_SECRET"
      j == CHOOSE k \in (i + 2)..Len(text) :
             text[k] = "\"" /\ \A m \in (i + 2)..(k - 1) : text[m] # "\""
  IN SubSeq(text, i + 2, j - 1)

\* C29: whatever happened before and whichever invocation it is, the tree a
\* successful run leaves is the one tree of the build for the name, and the
\* cookie-store secret in .env is the constant "secret".
C29_TreeIsFunctionOfName ==
  \A p \in Procs :
    Succeeded(p) =>
       /\ TreeOnDisk = TreeOf(variant, args[1])
       /\ HasSessions(variant) => SecretValue(fs[EnvPath].content) = <<"secret">>

C29_Witness ==
  /\ pc[1] = "done" /\ ~Succeeded(1) /\ pc[2] = "done" /\ Succeeded(2)
  /\ HasSessions(variant) /\ HasLetter(args[1])
  /\ TreeOnDisk = TreeOf(variant, args[1])

=============================================================================
